---- MODULE Spec2Model ----
(***************************************************************************)
(* The conversation session controller of src/src/App.tsx: the React      *)
(* component App, its state hooks and refs, the sendMessage handler, the   *)
(* typeMessage reveal animation and the user events of the view.           *)
(*                                                                         *)
(* Scheduling.  JavaScript runs one task at a time, so every action below  *)
(* is one task (an event handler, a timer callback, or the continuation of *)
(* an awaited promise together with the microtasks it triggers).  React    *)
(* re-renders between tasks, so a handler reads the state of the latest    *)
(* render; refs (chatMode, conditionRef) are read live.                    *)
(*                                                                         *)
(* Texts are sequences of units (one unit per step of the reveal).         *)
(***************************************************************************)
EXTENDS Integers, Sequences, FiniteSets, TLC

(* ---------------------------- bounds ----------------------------------- *)
MaxCalls == 2        \* accepted sendMessage invocations per behaviour
MaxInputLen == 4     \* units the textarea holds after a transcript is appended

(* ------------------------ values of the program ------------------------ *)
Null == <<"#null">>            \* JSON null in a text-valued field
Absent == <<"#undefined">>     \* field omitted (JavaScript undefined)
NoCondition == "#undefined"    \* diagnosis.condition omitted
NoError == "#null"             \* error === null
NoFile == "#null"              \* file === null (or undefined)

\* what the user leaves in the textarea: nothing, blanks, a text that trim() shortens
InputTexts == {<<>>, <<" ">>, <<" ", "a">>}
\* the file input carries accept=".pdf", a hint the file dialog lets the user override
FileTypes == {"pdf", "png"}

diagUrl == "diagUrl"
dietUrl == "dietUrl"

welcomeText == <<"Welcome to your personal Pocket Doctor.">>
NoQuestionText == <<"No question received.">>
InconclusiveText == <<"Unable to determine the condition conclusively.">>
GenericError == "An error occurred. Please try again."
SpeechError == "Speech recognition error: <event.error>"
Transcripts == {<<"t">>}       \* event.results[0][0].transcript

NullDiagnosis == [kind |-> "null", condition |-> NoCondition]
AbsentDiagnosis == [kind |-> "undefined", condition |-> NoCondition]
Diagnoses ==
    {NullDiagnosis, AbsentDiagnosis}
        \cup {[kind |-> "object", condition |-> c] : c \in {"Flu", "", NoCondition}}

\* every payload over the field values below
AllResponses ==
    [question : {Null, Absent, <<>>, <<"How", "long?">>},
     diagnosis : Diagnoses,
     home_remedy : {Null, Absent, <<>>, <<"rest">>},
     diet_plan : {Null, Absent, <<>>, <<"plan">>}]

Payload(q, d, h, p) == [question |-> q, diagnosis |-> d, home_remedy |-> h, diet_plan |-> p]
Flu == [kind |-> "object", condition |-> "Flu"]

\* the payloads the server answers with in Spec: each branch of the parse, with
\* the other fields empty and populated
Responses ==
    {Payload(<<"How", "long?">>, NullDiagnosis, Null, Null),
     Payload(<<"How", "long?">>, Flu, <<"rest">>, <<"plan">>),
     Payload(<<>>, NullDiagnosis, Null, Null),
     Payload(Absent, AbsentDiagnosis, Null, Null),
     Payload(Null, Flu, <<"rest">>, Null),
     Payload(Null, Flu, <<"rest">>, <<"plan">>),
     Payload(Null, [kind |-> "object", condition |-> ""], <<"rest">>, Null),
     Payload(Null, [kind |-> "object", condition |-> NoCondition], <<"rest">>, Null),
     Payload(Null, NullDiagnosis, Null, <<"plan">>),
     Payload(Null, AbsentDiagnosis, <<"rest">>, <<"plan">>),
     Payload(Null, NullDiagnosis, Null, Null),
     Payload(Null, Flu, Null, <<"plan">>),
     Payload(Null, Flu, <<>>, Null),
     Payload(Null, NullDiagnosis, <<"rest">>, <<>>)}

ErrorKinds == {"rejected_detail", "rejected", "timeout", "unreachable"}

(* ------------------------------ state ---------------------------------- *)
VARIABLES
    messages,        \* the message log
    input,           \* the textarea buffer
    file,            \* the pending attachment
    isRecording,
    isLoading,
    error,           \* the error banner
    isTyping,
    sessionId,
    showDietOption,
    isFileDisabled,
    chatMode,        \* chatMode.current
    conditionRef,    \* conditionRef.current
    welcome,         \* the welcome effect: its timer and its typeMessage call
    calls,           \* the accepted sendMessage invocations, in order
    mounted,         \* the component is mounted (it has not been torn down)
    recognition      \* the SpeechRecognition object that was started

vars == <<messages, input, file, isRecording, isLoading, error, isTyping,
          sessionId, showDietOption, isFileDisabled, chatMode, conditionRef,
          welcome, calls, mounted, recognition>>

(* --------------------------- pure helpers ------------------------------ *)
RECURSIVE TrimStart(_)
TrimStart(s) == IF s # <<>> /\ Head(s) = " " THEN TrimStart(Tail(s)) ELSE s

RECURSIVE TrimEnd(_)
TrimEnd(s) ==
    IF s # <<>> /\ s[Len(s)] = " " THEN TrimEnd(SubSeq(s, 1, Len(s) - 1)) ELSE s

\* String.prototype.trim
Trim(s) == TrimEnd(TrimStart(s))

\* JavaScript truthiness of a text-valued field
Truthy(t) == t # Null /\ t # Absent /\ t # <<>>

\* truthiness of response.data.diagnosis
DiagnosisTruthy(d) == d.kind = "object"

\* `${condition}` inside the template literal
ConditionUnits(c) == IF c = NoCondition THEN <<"undefined">> ELSE <<c>>

\* response.data.diagnosis == null
DiagnosisIsNull(d) == d.kind \in {"null", "undefined"}

\* Classify with the diagnosis test moved in front of the question test
ClassifyDiagnosisFirst(data) ==
    IF DiagnosisTruthy(data.diagnosis) /\ Truthy(data.home_remedy) THEN "Diagnosis"
    ELSE IF data.question # Null THEN "Question"
    ELSE IF DiagnosisIsNull(data.diagnosis) /\ Truthy(data.diet_plan) THEN "DietPlan"
    ELSE "Inconclusive"

\* Classify with the diet branch gated by diet_plan alone and tested first
ClassifyDietFirst(data) ==
    IF data.question # Null THEN "Question"
    ELSE IF Truthy(data.diet_plan) THEN "DietPlan"
    ELSE IF DiagnosisTruthy(data.diagnosis) /\ Truthy(data.home_remedy) THEN "Diagnosis"
    ELSE "Inconclusive"

\* Classify with the diet branch taken whenever home_remedy is missing and
\* diet_plan is populated, a diagnosis notwithstanding
ClassifyDietDespiteDiagnosis(data) ==
    IF data.question # Null THEN "Question"
    ELSE IF DiagnosisTruthy(data.diagnosis) /\ Truthy(data.home_remedy) THEN "Diagnosis"
    ELSE IF Truthy(data.diet_plan) THEN "DietPlan"
    ELSE "Inconclusive"

\* the branch of the if/else-if chain that parses response.data
Classify(data) ==
    IF data.question # Null THEN "Question"
    ELSE IF DiagnosisTruthy(data.diagnosis) /\ Truthy(data.home_remedy) THEN "Diagnosis"
    ELSE IF DiagnosisIsNull(data.diagnosis) /\ Truthy(data.diet_plan) THEN "DietPlan"
    ELSE "Inconclusive"

\* response.data.question || 'No question received.'
QuestionText(data) == IF Truthy(data.question) THEN data.question ELSE NoQuestionText

\* the diagnosis template: one unit per interpolated field, here the condition
\* and the home remedy (the labels and the list fields are constant)
DiagnosisText(data) == ConditionUnits(data.diagnosis.condition) \o data.home_remedy

\* the diet plan template
DietPlanText(data) == <<"Recommended Diet Plan:">> \o data.diet_plan

\* botText
BotText(data) ==
    CASE Classify(data) = "Question" -> QuestionText(data)
      [] Classify(data) = "Diagnosis" -> DiagnosisText(data)
      [] Classify(data) = "DietPlan" -> DietPlanText(data)
      [] OTHER -> InconclusiveText

\* ModeAfter without the reset of the diet branch
ModeAfterNoReset(data, mode) ==
    CASE Classify(data) = "Diagnosis" -> "Diet"
      [] OTHER -> mode

\* chatMode.current after the parse
ModeAfter(data, mode) ==
    CASE Classify(data) = "Diagnosis" -> "Diet"
      [] Classify(data) = "DietPlan" -> "Diagnosis"
      [] OTHER -> mode

\* ConditionAfter without the || 'Unknown' fallback
ConditionAfterNoFallback(data, cond) ==
    CASE Classify(data) = "Diagnosis" ->
            IF data.diagnosis.condition = NoCondition
                THEN "undefined" ELSE data.diagnosis.condition
      [] Classify(data) = "DietPlan" -> "Unknown"
      [] OTHER -> cond

\* conditionRef.current after the parse
ConditionAfter(data, cond) ==
    CASE Classify(data) = "Diagnosis" ->
            IF data.diagnosis.condition \in {NoCondition, ""}
                THEN "Unknown" ELSE data.diagnosis.condition
      [] Classify(data) = "DietPlan" -> "Unknown"
      [] OTHER -> cond

\* the test that guards setShowDietOption(true) after the reveal
DietOptionTest(data) == data.question = Null /\ DiagnosisTruthy(data.diagnosis)

\* ErrorText of a catch block that sets no banner
ErrorTextMissing(kind) == NoError

\* the banner text computed in the catch block
ErrorText(kind) == IF kind = "rejected_detail" THEN "detail" ELSE GenericError

\* Request without the condition field
RequestWithoutCondition(via, url, f, text, cond, sid) ==
    [via |-> via,
     url |-> url,
     file |-> f,
     message |-> IF Trim(text) # <<>> THEN Trim(text) ELSE Absent,
     condition |-> NoCondition,
     session |-> sid]

\* Request without the X-Session-ID header
RequestWithoutSession(via, url, f, text, cond, sid) ==
    [via |-> via,
     url |-> url,
     file |-> f,
     message |-> IF Trim(text) # <<>> THEN Trim(text) ELSE Absent,
     condition |-> IF cond # "" THEN cond ELSE NoCondition,
     session |-> "#none"]

\* the FormData and headers handed to axios.post; via names the control whose
\* handler sent it
Request(via, url, f, text, cond, sid) ==
    [via |-> via,
     url |-> url,
     file |-> f,
     message |-> IF Trim(text) # <<>> THEN Trim(text) ELSE Absent,
     condition |-> IF cond # "" THEN cond ELSE NoCondition,
     session |-> sid]

\* no request of the call is in flight
NoRequest ==
    [via |-> "#none", url |-> "#none", file |-> NoFile, message |-> Absent,
     condition |-> NoCondition, session |-> "#none"]

\* response is not in scope
NoData == Payload(Absent, AbsentDiagnosis, Absent, Absent)

\* the setMessages updater of typeNextChar: rewrites the last element
WriteLast(msgs, text) == [msgs EXCEPT ![Len(msgs)].text = text]

\* a Message with a fresh id
NewMessage(msgs, text, isUser) ==
    [id |-> Len(msgs) + 1, text |-> text, isUser |-> isUser]

\* AppendBotMessage that appends nothing
AppendBotMessageMissing(msgs) == msgs

\* setMessages((prev) => [...prev, botMessage])
AppendBotMessage(msgs) == Append(msgs, NewMessage(msgs, <<>>, FALSE))

\* Returned for an invocation that never returns
ReturnedNever(call, pc) == call

\* a sendMessage invocation that has returned: its locals are gone
Returned(call, pc) ==
    [call EXCEPT !.pc = pc, !.req = NoRequest, !.data = NoData, !.fullText = <<>>,
                 !.index = 0, !.currentText = <<>>]

(* ------------------------------- Init ---------------------------------- *)
\* the state after the first render and its mount effects
Init ==
    /\ messages = <<[id |-> 1, text |-> <<>>, isUser |-> FALSE]>>
    /\ input = <<>>
    /\ file = NoFile
    /\ isRecording = FALSE
    /\ isLoading = FALSE
    /\ error = NoError
    /\ isTyping = FALSE
    /\ sessionId = "uuid"
    /\ showDietOption = FALSE
    /\ isFileDisabled = FALSE
    /\ chatMode = "Diagnosis"
    /\ conditionRef = "Unknown"
    /\ welcome = [pc |-> "timer", index |-> 0, currentText |-> <<>>, target |-> 1]
    /\ calls = <<>>
    /\ mounted = TRUE
    /\ recognition = "idle"

(* --------------------------- the welcome effect ------------------------ *)
\* setTimeout(() => typeMessage(welcomeText), 500): the timer fires, typeMessage
\* sets isTyping and runs the first typeNextChar synchronously
WelcomeStart ==
    /\ welcome.pc = "timer"
    /\ isTyping' = TRUE
    /\ messages' = WriteLast(messages, <<welcomeText[1]>>)
    /\ welcome' = [welcome EXCEPT !.pc = "typing", !.index = 1,
                                  !.currentText = <<welcomeText[1]>>]
    /\ UNCHANGED <<input, file, isRecording, isLoading, error, sessionId,
                   showDietOption, isFileDisabled, chatMode, conditionRef, calls, mounted,
                   recognition>>

\* typeNextChar of the welcome reveal, run by its setTimeout
WelcomeTick ==
    /\ welcome.pc = "typing"
    /\ IF welcome.index < Len(welcomeText)
         THEN LET text == Append(welcome.currentText, welcomeText[welcome.index + 1])
              IN /\ messages' = WriteLast(messages, text)
                 /\ welcome' = [welcome EXCEPT !.index = @ + 1, !.currentText = text]
                 /\ UNCHANGED isTyping
         ELSE /\ isTyping' = FALSE
              /\ welcome' = [welcome EXCEPT !.pc = "done"]
              /\ UNCHANGED messages
    /\ UNCHANGED <<input, file, isRecording, isLoading, error, sessionId,
                   showDietOption, isFileDisabled, chatMode, conditionRef, calls, mounted,
                   recognition>>

(* ------------------------------ sendMessage ---------------------------- *)
\* Refused without the test of the mode
RefusedInAnyMode == isLoading \/ (Trim(input) = <<>> /\ file = NoFile)

\* the early return of sendMessage
Refused ==
    (isLoading \/ (Trim(input) = <<>> /\ file = NoFile)) /\ chatMode = "Diagnosis"

\* ApiUrl that ignores the mode
ApiUrlAlwaysDiagnosis(mode) == diagUrl

\* apiUrlRef.current at the axios.post call
ApiUrl(mode) == IF mode = "Diet" THEN dietUrl ELSE diagUrl

\* SendMessage without setError(null)
SendMessageKeepsError(via) ==
    IF Refused
      THEN UNCHANGED vars
      ELSE /\ Len(calls) < MaxCalls
           /\ isLoading' = TRUE
           /\ messages' = Append(messages, NewMessage(messages, input, TRUE))
           /\ input' = <<>>
           /\ isFileDisabled' = (chatMode = "Diet")
           /\ showDietOption' = IF chatMode = "Diet" THEN FALSE ELSE showDietOption
           /\ calls' = Append(calls,
                  [pc |-> "awaiting",
                   req |-> Request(via, ApiUrl(chatMode), file, input, conditionRef, sessionId),
                   data |-> NoData,
                   fullText |-> <<>>,
                   index |-> 0,
                   currentText |-> <<>>,
                   target |-> 0])
           /\ UNCHANGED <<file, isRecording, isTyping, sessionId, chatMode,
                          conditionRef, welcome, mounted, error,
                   recognition>>

\* sendMessage up to its first await (the axios.post); via names the control
\* that called it
SendMessage(via) ==
    IF Refused
      THEN UNCHANGED vars
      ELSE /\ Len(calls) < MaxCalls
           /\ isLoading' = TRUE
           /\ error' = NoError
           /\ messages' = Append(messages, NewMessage(messages, input, TRUE))
           /\ input' = <<>>
           /\ isFileDisabled' = (chatMode = "Diet")
           /\ showDietOption' = IF chatMode = "Diet" THEN FALSE ELSE showDietOption
           /\ calls' = Append(calls,
                  [pc |-> "awaiting",
                   req |-> Request(via, ApiUrl(chatMode), file, input, conditionRef, sessionId),
                   data |-> NoData,
                   fullText |-> <<>>,
                   index |-> 0,
                   currentText |-> <<>>,
                   target |-> 0])
           /\ UNCHANGED <<file, isRecording, isTyping, sessionId, chatMode,
                          conditionRef, welcome, mounted,
                   recognition>>

\* the Send button, disabled={isRecording || isLoading || (!input.trim() && !file)}
ClickSend ==
    /\ mounted
    /\ ~(isRecording \/ isLoading \/ (Trim(input) = <<>> /\ file = NoFile))
    /\ SendMessage("send")

\* handleKeyPress with Enter and no Shift
PressEnter == mounted /\ SendMessage("enter")

\* the "Create a diet plan" button, rendered while showDietOption
ClickDietPlan ==
    /\ mounted
    /\ showDietOption
    /\ SendMessage("diet")

\* DeclineDiet that also leaves Diet mode
DeclineDietResetsMode ==
    /\ mounted
    /\ showDietOption
    /\ showDietOption' = FALSE
    /\ chatMode' = "Diagnosis"
    /\ conditionRef' = "Unknown"
    /\ UNCHANGED <<messages, input, file, isRecording, isLoading, error, isTyping,
                   sessionId, isFileDisabled, welcome, calls, mounted,
                   recognition>>

\* the "No, thank you" button
DeclineDiet ==
    /\ mounted
    /\ showDietOption
    /\ showDietOption' = FALSE
    /\ UNCHANGED <<messages, input, file, isRecording, isLoading, error, isTyping,
                   sessionId, isFileDisabled, chatMode, conditionRef, welcome, calls, mounted,
                   recognition>>

\* the continuation of sendMessage after axios.post resolved with data: the
\* parse, the append of the empty bot message, typeMessage and its first
\* typeNextChar
ReceiveResponse(c, data) ==
    /\ c \in 1..Len(calls)
    /\ calls[c].pc = "awaiting"
    /\ LET botText == BotText(data)
           appended == AppendBotMessage(messages)
       IN /\ chatMode' = ModeAfter(data, chatMode)
          /\ conditionRef' = ConditionAfter(data, conditionRef)
          /\ messages' = WriteLast(appended, <<botText[1]>>)
          /\ isTyping' = TRUE
          /\ calls' = [calls EXCEPT ![c] =
                 [@ EXCEPT !.pc = "typing",
                           !.req = NoRequest,
                           !.data = data,
                           !.fullText = botText,
                           !.index = 1,
                           !.currentText = <<botText[1]>>,
                           !.target = Len(messages) + 1]]
    /\ UNCHANGED <<input, file, isRecording, isLoading, error, sessionId,
                   showDietOption, isFileDisabled, welcome, mounted,
                   recognition>>

\* typeNextChar of call c's reveal, run by its setTimeout; its last run
\* resolves the promise, and sendMessage finishes (the diet option test and
\* the finally block)
Tick(c) ==
    /\ c \in 1..Len(calls)
    /\ calls[c].pc = "typing"
    /\ IF calls[c].index < Len(calls[c].fullText)
         THEN LET text == Append(calls[c].currentText,
                                 calls[c].fullText[calls[c].index + 1])
              IN /\ messages' = WriteLast(messages, text)
                 /\ calls' = [calls EXCEPT ![c] =
                        [@ EXCEPT !.index = @ + 1, !.currentText = text]]
                 /\ UNCHANGED <<isTyping, showDietOption, isLoading, file>>
         ELSE /\ isTyping' = FALSE
              /\ showDietOption' =
                     IF DietOptionTest(calls[c].data) THEN TRUE ELSE showDietOption
              /\ isLoading' = FALSE
              /\ file' = NoFile
              /\ calls' = [calls EXCEPT ![c] = Returned(@, "done")]
              /\ UNCHANGED messages
    /\ UNCHANGED <<input, isRecording, error, sessionId, isFileDisabled, chatMode,
                   conditionRef, welcome, mounted,
                   recognition>>

\* ReceiveError with the attachment cleared on success only
ReceiveErrorKeepsFile(c, kind) ==
    /\ c \in 1..Len(calls)
    /\ calls[c].pc = "awaiting"
    /\ error' = ErrorText(kind)
    /\ isLoading' = FALSE
    /\ calls' = [calls EXCEPT ![c] = Returned(@, "failed")]
    /\ UNCHANGED <<messages, input, file, isRecording, isTyping, sessionId,
                   showDietOption, isFileDisabled, chatMode, conditionRef, welcome, mounted,
                   recognition>>

\* ReceiveError that falls back to Diagnosis mode
ReceiveErrorResetsMode(c, kind) ==
    /\ c \in 1..Len(calls)
    /\ calls[c].pc = "awaiting"
    /\ error' = ErrorText(kind)
    /\ isLoading' = FALSE
    /\ file' = NoFile
    /\ chatMode' = "Diagnosis"
    /\ conditionRef' = "Unknown"
    /\ calls' = [calls EXCEPT ![c] = Returned(@, "failed")]
    /\ UNCHANGED <<messages, input, isRecording, isTyping, sessionId, showDietOption,
                   isFileDisabled, welcome, mounted,
                   recognition>>

\* axios.post rejected: the catch and finally blocks
ReceiveError(c, kind) ==
    /\ c \in 1..Len(calls)
    /\ calls[c].pc = "awaiting"
    /\ error' = ErrorText(kind)
    /\ isLoading' = FALSE
    /\ file' = NoFile
    /\ calls' = [calls EXCEPT ![c] = Returned(@, "failed")]
    /\ UNCHANGED <<messages, input, isRecording, isTyping, sessionId, showDietOption,
                   isFileDisabled, chatMode, conditionRef, welcome, mounted,
                   recognition>>

(* ------------------------------ user events ---------------------------- *)
\* the textarea's onChange
TypeInput(text) ==
    /\ mounted
    /\ input' = text
    /\ input' # input
    /\ UNCHANGED <<messages, file, isRecording, isLoading, error, isTyping, sessionId,
                   showDietOption, isFileDisabled, chatMode, conditionRef, welcome, calls, mounted,
                   recognition>>

\* handleFileChange, reachable while the file input is not disabled; f is
\* e.target.files[0]
HandleFileChange(f) ==
    /\ mounted
    /\ ~isFileDisabled
    /\ file' = f
    /\ file' # file
    /\ UNCHANGED <<messages, input, isRecording, isLoading, error, isTyping, sessionId,
                   showDietOption, isFileDisabled, chatMode, conditionRef, welcome, calls, mounted,
                   recognition>>

\* toggleRecording, in a browser that has the recognition API and the
\* microphone permission.  start() starts the object of recognitionRef; stop()
\* lets a started object deliver what it has heard and end, so it takes no
\* event away from it
ToggleRecording ==
    /\ mounted
    /\ isRecording' = ~isRecording
    /\ recognition' = IF ~isRecording /\ recognition = "idle" THEN "started"
                                                             ELSE recognition
    /\ UNCHANGED <<messages, input, file, isLoading, error, isTyping, sessionId,
                   showDietOption, isFileDisabled, chatMode, conditionRef, welcome,
                   calls, mounted>>

\* prev + (prev ? ' ' : '') + transcript
JoinTranscript(prev, transcript) ==
    prev \o (IF prev # <<>> THEN <<" ">> ELSE <<>>) \o transcript

\* OnResult that replaces the buffer by the transcript
OnResultReplaces(transcript) ==
    /\ recognition = "started"
    /\ Len(transcript) <= MaxInputLen
    /\ input' = transcript
    /\ isRecording' = FALSE
    /\ recognition' = "resulted"
    /\ UNCHANGED <<messages, file, isLoading, error, isTyping, sessionId,
                   showDietOption, isFileDisabled, chatMode, conditionRef, welcome,
                   calls, mounted>>

\* recognition.onresult (continuous = false: one result per start)
OnResult(transcript) ==
    /\ recognition = "started"
    /\ Len(JoinTranscript(input, transcript)) <= MaxInputLen
    /\ input' = JoinTranscript(input, transcript)
    /\ isRecording' = FALSE
    /\ recognition' = "resulted"
    /\ UNCHANGED <<messages, file, isLoading, error, isTyping, sessionId,
                   showDietOption, isFileDisabled, chatMode, conditionRef, welcome,
                   calls, mounted>>

\* recognition.onerror
OnError ==
    /\ recognition = "started"
    /\ error' = SpeechError
    /\ isRecording' = FALSE
    /\ recognition' = "errored"
    /\ UNCHANGED <<messages, input, file, isLoading, isTyping, sessionId,
                   showDietOption, isFileDisabled, chatMode, conditionRef, welcome,
                   calls, mounted>>

\* recognition.onend
OnEnd ==
    /\ recognition # "idle"
    /\ isRecording' = FALSE
    /\ recognition' = "idle"
    /\ UNCHANGED <<messages, input, file, isLoading, error, isTyping, sessionId,
                   showDietOption, isFileDisabled, chatMode, conditionRef, welcome,
                   calls, mounted>>

\* the component is unmounted.  Neither the welcome effect nor typeMessage
\* registers a cleanup, so their timers stay scheduled and the pending
\* axios.post stays in flight; their callbacks run as before, the state setters
\* they call acting on the state of the unmounted component
Unmount ==
    /\ mounted
    /\ mounted' = FALSE
    /\ UNCHANGED <<messages, input, file, isRecording, isLoading, error, isTyping,
                   sessionId, showDietOption, isFileDisabled, chatMode, conditionRef,
                   welcome, calls,
                   recognition>>

(* --------------------------- the specification ------------------------- *)
Next ==
    \/ WelcomeStart
    \/ WelcomeTick
    \/ ClickSend
    \/ PressEnter
    \/ ClickDietPlan
    \/ DeclineDiet
    \/ \E c \in 1..MaxCalls, data \in Responses : ReceiveResponse(c, data)
    \/ \E c \in 1..MaxCalls : Tick(c)
    \/ \E c \in 1..MaxCalls, kind \in ErrorKinds : ReceiveError(c, kind)
    \/ \E text \in InputTexts : TypeInput(text)
    \/ \E f \in FileTypes \cup {NoFile} : HandleFileChange(f)

Spec == Init /\ [][Next]_vars

(* ------------------------ a session that is torn down ------------------ *)
\* a session in which the user types and submits with Enter, and which is
\* torn down at any moment
NextTeardown ==
    \/ WelcomeStart
    \/ WelcomeTick
    \/ PressEnter
    \/ \E c \in 1..MaxCalls, data \in Responses : ReceiveResponse(c, data)
    \/ \E c \in 1..MaxCalls : Tick(c)
    \/ \E c \in 1..MaxCalls, kind \in ErrorKinds : ReceiveError(c, kind)
    \/ \E text \in InputTexts : TypeInput(text)
    \/ Unmount

SpecTeardown == Init /\ [][NextTeardown]_vars

(* ------------------------ a session with dictation --------------------- *)
\* the server asks a question or gives the diagnosis "Flu"
CaptureResponses ==
    {Payload(<<"How", "long?">>, NullDiagnosis, Null, Null),
     Payload(Null, Flu, <<"rest">>, Null)}

\* a session in which the user types, dictates and submits with Enter
NextCapture ==
    \/ ToggleRecording
    \/ \E transcript \in Transcripts : OnResult(transcript)
    \/ OnError
    \/ OnEnd
    \/ PressEnter
    \/ \E c \in 1..MaxCalls, data \in CaptureResponses : ReceiveResponse(c, data)
    \/ \E c \in 1..MaxCalls : Tick(c)
    \/ \E text \in InputTexts : TypeInput(text)

SpecCapture == Init /\ [][NextCapture]_vars

(* ------------------ a session whose timers and requests progress ------- *)
\* a session in which the user types and submits with Enter
NextLive ==
    \/ WelcomeStart
    \/ WelcomeTick
    \/ PressEnter
    \/ \E c \in 1..MaxCalls, data \in Responses : ReceiveResponse(c, data)
    \/ \E c \in 1..MaxCalls : Tick(c)
    \/ \E c \in 1..MaxCalls, kind \in ErrorKinds : ReceiveError(c, kind)
    \/ \E text \in InputTexts : TypeInput(text)

\* axios.post settles: it resolves, or it rejects, at the latest when the
\* timeout of 90 s expires
Settle(c) ==
    \/ \E data \in Responses : ReceiveResponse(c, data)
    \/ \E kind \in ErrorKinds : ReceiveError(c, kind)

\* a timer set with setTimeout fires, and a pending axios.post settles; the
\* user is under no obligation
Fairness ==
    /\ WF_vars(WelcomeStart)
    /\ WF_vars(WelcomeTick)
    /\ \A c \in 1..MaxCalls : WF_vars(Tick(c)) /\ WF_vars(Settle(c))

SpecLive == Init /\ [][NextLive]_vars /\ Fairness

(* ------------------ the parse of a response, on every payload ---------- *)
\* Two states of Spec in which one submission awaits its response: the first
\* turn of a session ("first", mode Diagnosis), and the turn sent by the
\* "Create a diet plan" button after the diagnosis "Flu" ("diet", mode Diet)
AwaitingState(turn) ==
    LET welcomeMsg == [id |-> 1, text |-> welcomeText, isUser |-> FALSE]
        firstMsg == [id |-> 2, text |-> <<" ", "a">>, isUser |-> TRUE]
        firstCall == [pc |-> "awaiting",
                      req |-> Request("enter", diagUrl, NoFile, <<" ", "a">>,
                                      "Unknown", "uuid"),
                      data |-> NoData, fullText |-> <<>>, index |-> 0,
                      currentText |-> <<>>, target |-> 0]
        dietCall == [firstCall EXCEPT
                        !.req = Request("diet", dietUrl, NoFile, <<>>, "Flu", "uuid")]
    IN /\ input = <<>>
       /\ file = NoFile
       /\ isRecording = FALSE
       /\ isLoading = TRUE
       /\ error = NoError
       /\ isTyping = FALSE
       /\ sessionId = "uuid"
       /\ showDietOption = FALSE
       /\ welcome = [pc |-> "done", index |-> 1, currentText |-> welcomeText,
                     target |-> 1]
       /\ mounted = TRUE
       /\ recognition = "idle"
       /\ IF turn = "first"
            THEN /\ messages = <<welcomeMsg, firstMsg>>
                 /\ calls = <<firstCall>>
                 /\ chatMode = "Diagnosis"
                 /\ conditionRef = "Unknown"
                 /\ isFileDisabled = FALSE
            ELSE /\ messages = <<welcomeMsg, firstMsg,
                                 [id |-> 3, text |-> <<"Flu", "rest">>, isUser |-> FALSE],
                                 [id |-> 4, text |-> <<>>, isUser |-> TRUE]>>
                 /\ calls = <<[Returned(firstCall, "done") EXCEPT !.target = 3], dietCall>>
                 /\ chatMode = "Diet"
                 /\ conditionRef = "Flu"
                 /\ isFileDisabled = TRUE

InitParse == AwaitingState("first") \/ AwaitingState("diet")

NextParse ==
    \/ \E c \in 1..MaxCalls, data \in AllResponses : ReceiveResponse(c, data)
    \/ \E c \in 1..MaxCalls : Tick(c)

\* the continuation of sendMessage from the two awaiting states, on every payload
SpecParse == InitParse /\ [][NextParse]_vars

\* TLC finds both violated under Spec: the initial states of SpecParse are
\* states of Spec
AwaitingFirstUnreachable == ~AwaitingState("first")
AwaitingDietUnreachable == ~AwaitingState("diet")

(* ------------------------------ the claims ----------------------------- *)
CallIds == 1..Len(calls)

\* call c has been accepted and has not returned
Unfinished(c) == calls[c].pc \in {"awaiting", "typing"}

\* this step is the continuation of call c after its response arrived
Responded(c) == calls[c].pc = "awaiting" /\ calls'[c].pc = "typing"

\* this step is the return of call c
Finished(c) == Unfinished(c) /\ calls'[c].pc \in {"done", "failed"}

\* this step is the last typeNextChar of call c's reveal
RevealCompleted(c) == calls[c].pc = "typing" /\ calls'[c].pc = "done"

\* a text-valued field holds a non-empty string
Populated(t) == t \notin {Null, Absent, <<>>}

\* the payload of the diagnosis branch: question null, diagnosis and home_remedy present
DiagnosisBranch(d) ==
    d.question = Null /\ d.diagnosis.kind = "object" /\ Populated(d.home_remedy)

\* the payload of the diet branch: question null, diagnosis absent, diet_plan present
DietBranch(d) ==
    d.question = Null /\ d.diagnosis.kind # "object" /\ Populated(d.diet_plan)

\* C1: a call to sendMessage made while an earlier submission has not finished
\* is refused, whatever the mode, so that at most one request is in flight.
C1_OneSubmissionAtATime ==
    [][Len(calls') > Len(calls) => \A c \in CallIds : ~Unfinished(c)]_vars

\* the reveal that ran in this step was started for message i
RevealRanFor(i) ==
    \/ welcome' # welcome /\ welcome.target = i
    \/ \E c \in CallIds : calls[c].pc = "typing" /\ calls'[c] # calls[c]
                             /\ calls[c].target = i

\* C2: the log is append-only, and a step changes the text of a message only
\* if that message is an assistant message, is the one the running reveal was
\* started for, and is the most recently appended assistant message.
C2_AnimatorWritesOwnMessage ==
    [][/\ Len(messages') >= Len(messages)
       /\ \A i \in 1..Len(messages) :
            /\ messages'[i].id = messages[i].id
            /\ messages'[i].isUser = messages[i].isUser
            /\ messages'[i].text # messages[i].text =>
                 /\ ~messages[i].isUser
                 /\ RevealRanFor(i)
                 /\ \A j \in (i + 1)..Len(messages) : messages[j].isUser]_vars

\* C3: the log holds the welcome message, one user message per accepted
\* submission and one assistant message per answered submission, no more and
\* no fewer.
C3_LogCounts ==
    /\ Cardinality({i \in 1..Len(messages) : messages[i].isUser}) = Len(calls)
    /\ Cardinality({i \in 1..Len(messages) : ~messages[i].isUser})
         = 1 + Cardinality({c \in CallIds : calls[c].pc \in {"typing", "done"}})
    /\ Len(messages)
         = 1 + Len(calls) + Cardinality({c \in CallIds : calls[c].pc \in {"typing", "done"}})

\* two turns completed: five messages, user and assistant alternating
C3_Witness ==
    /\ Len(calls) = 2
    /\ \A c \in CallIds : calls[c].pc = "done"
    /\ Len(messages) = 5

\* C4 as claimed: when question is non-null the rendered text is the question
\* and mode and pendingCondition are unchanged.
C4_Original ==
    [][\A c \in CallIds :
          Responded(c) /\ calls'[c].data.question # Null =>
             /\ calls'[c].fullText = calls'[c].data.question
             /\ chatMode' = chatMode
             /\ conditionRef' = conditionRef]_vars

\* C4 as amended: when question is a string, whatever the other fields, the
\* rendered text is the question if it is non-empty and the fixed text
\* 'No question received.' if it is empty, and mode and pendingCondition are
\* unchanged.
C4_QuestionPrecedence ==
    [][\A c \in CallIds :
          Responded(c) /\ calls'[c].data.question \notin {Null, Absent} =>
             /\ calls'[c].fullText =
                    IF calls'[c].data.question = <<>>
                        THEN NoQuestionText ELSE calls'[c].data.question
             /\ chatMode' = chatMode
             /\ conditionRef' = conditionRef]_vars

\* a payload with all four fields populated is being revealed as its question,
\* in the mode the session started in
C4_Witness ==
    \E c \in CallIds :
        /\ calls[c].pc = "typing"
        /\ calls[c].data = Payload(<<"How", "long?">>, Flu, <<"rest">>, <<"plan">>)
        /\ calls[c].fullText = <<"How", "long?">>
        /\ chatMode = "Diagnosis"
        /\ conditionRef = "Unknown"

\* C5: with question null and diagnosis, home_remedy and diet_plan all
\* populated the diagnosis branch is taken (diagnosis text, mode Diet); the
\* diet-plan branch is taken only when diagnosis is absent and diet_plan is
\* populated.
C5_DiagnosisBeforeDiet ==
    [][\A c \in CallIds :
          Responded(c) =>
             LET d == calls'[c].data
             IN /\ (DiagnosisBranch(d) /\ Populated(d.diet_plan)) =>
                      (calls'[c].fullText = DiagnosisText(d) /\ chatMode' = "Diet")
                /\ (d.question = Null /\ calls'[c].fullText = DietPlanText(d)) =>
                      (d.diagnosis.kind # "object" /\ Populated(d.diet_plan))]_vars

\* the payload with diagnosis, home_remedy and diet_plan is being revealed as
\* a diagnosis
C5_Witness ==
    \E c \in CallIds :
        /\ calls[c].pc = "typing"
        /\ calls[c].data = Payload(Null, Flu, <<"rest">>, <<"plan">>)
        /\ calls[c].fullText = <<"Flu", "rest">>
        /\ chatMode = "Diet"

\* C6: the step that parses a diagnosis-branch response leaves mode = Diet and
\* pendingCondition = the diagnosis condition, or "Unknown" when the condition
\* is absent or empty.
C6_DiagnosisSetsDiet ==
    [][\A c \in CallIds :
          Responded(c) /\ DiagnosisBranch(calls'[c].data) =>
             /\ chatMode' = "Diet"
             /\ conditionRef' =
                    IF calls'[c].data.diagnosis.condition \in {NoCondition, ""}
                        THEN "Unknown" ELSE calls'[c].data.diagnosis.condition]_vars

\* a diagnosis without a condition has been parsed: mode Diet, condition "Unknown"
C6_Witness ==
    \E c \in CallIds :
        /\ calls[c].pc = "typing"
        /\ DiagnosisBranch(calls[c].data)
        /\ calls[c].data.diagnosis.condition = NoCondition
        /\ chatMode = "Diet"
        /\ conditionRef = "Unknown"

\* C7: the step that parses a diet-branch response leaves mode = Diagnosis and
\* pendingCondition = "Unknown", whatever they were before.
C7_DietResetsMode ==
    [][\A c \in CallIds :
          Responded(c) /\ DietBranch(calls'[c].data) =>
             chatMode' = "Diagnosis" /\ conditionRef' = "Unknown"]_vars

\* the second turn was submitted in Diet mode after the diagnosis "Flu" (the
\* file input is disabled by a Diet-mode submission only) and its diet-branch
\* response has been parsed
C7_Witness ==
    /\ Len(calls) = 2
    /\ calls[1].pc = "done"
    /\ messages[3].text = <<"Flu", "rest">>
    /\ isFileDisabled
    /\ calls[2].pc = "typing"
    /\ DietBranch(calls[2].data)
    /\ chatMode = "Diagnosis"
    /\ conditionRef = "Unknown"

\* C8: the diet-option prompt becomes visible exactly when the reveal of a
\* diagnosis-branch response completes: only such a step shows it, and every
\* such step shows it.
C8_DietOptionIffDiagnosisBranch ==
    [][/\ (showDietOption' /\ ~showDietOption) =>
            \E c \in CallIds : RevealCompleted(c) /\ DiagnosisBranch(calls[c].data)
       /\ \A c \in CallIds :
            (RevealCompleted(c) /\ DiagnosisBranch(calls[c].data)) => showDietOption']_vars

\* C9: accepting the diet-option prompt offered after a diagnosis (mode Diet)
\* sends a request to the diet endpoint with condition = pendingCondition, no
\* message field and no file field, whatever the input buffer and the
\* attachment hold.
C9_DietAcceptRequest ==
    [][(Len(calls') > Len(calls) /\ calls'[Len(calls')].req.via = "diet"
            /\ chatMode = "Diet") =>
          LET r == calls'[Len(calls')].req
          IN /\ r.url = dietUrl
             /\ r.condition = conditionRef
             /\ r.message = Absent
             /\ r.file = NoFile]_vars

\* C10: the step in which a submission returns, after success or after
\* failure, leaves the pending attachment empty.
C10_AttachmentClearedOnReturn ==
    [][\A c \in CallIds : Finished(c) => file' = NoFile]_vars

\* a request sent without a file is in flight and the user has since selected
\* a file
C10_Witness ==
    \E c \in CallIds :
        /\ calls[c].pc = "awaiting"
        /\ calls[c].req.file = NoFile
        /\ file # NoFile

\* this step is the failure of call c's transport call
Failed(c) == calls[c].pc = "awaiting" /\ calls'[c].pc = "failed"

\* C11: the step in which a transport call fails appends no message, sets the
\* error banner, clears the pending attachment and the loading flag, and
\* leaves no request of the failed submission; after it a submission is
\* refused only for being empty in Diagnosis mode.
C11_FailureHandled ==
    [][\A c \in CallIds :
          Failed(c) =>
             /\ messages' = messages
             /\ error' # NoError
             /\ file' = NoFile
             /\ isLoading' = FALSE
             /\ calls'[c].req = NoRequest
             /\ Refused' <=> (Trim(input') = <<>> /\ chatMode' = "Diagnosis")]_vars

\* the first submission has failed: the log ends with its user message, the
\* banner shows the generic text and nothing is loading
C11_Witness ==
    /\ Len(calls) = 1
    /\ calls[1].pc = "failed"
    /\ welcome.pc = "done"
    /\ Len(messages) = 2
    /\ messages[2].isUser
    /\ error = GenericError
    /\ file = NoFile
    /\ ~isLoading

\* C12: a failure by timeout is surfaced differently from a server rejection
\* and from an unreachable server: no step that is the failure of a call by
\* timeout is also its failure by one of the other kinds.
C12_TimeoutDistinguishable ==
    [][\A c \in CallIds : \A kind \in ErrorKinds \ {"timeout"} :
          ReceiveError(c, "timeout") => ~ReceiveError(c, kind)]_vars

\* C13: every tick of a reveal makes the revealed text one unit longer, a
\* prefix of the source; at completion the number of ticks run equals the
\* length of the source and the text of the target message is the source.
C13_RevealRoundTrip ==
    [][/\ \A c \in CallIds :
            /\ (calls[c].pc = "typing" /\ calls'[c].pc = "typing" /\ calls'[c] # calls[c]) =>
                  /\ Len(calls'[c].currentText) = Len(calls[c].currentText) + 1
                  /\ calls'[c].currentText
                        = SubSeq(calls[c].fullText, 1, Len(calls'[c].currentText))
            /\ RevealCompleted(c) =>
                  /\ calls[c].index = Len(calls[c].fullText)
                  /\ calls[c].currentText = calls[c].fullText
                  /\ messages'[calls[c].target].text = calls[c].fullText
       /\ (welcome.pc = "typing" /\ welcome'.pc = "done") =>
            /\ welcome.index = Len(welcomeText)
            /\ messages'[welcome.target].text = welcomeText]_vars

\* the reveals that have started and have not signalled completion
ActiveReveals ==
    {c \in CallIds : calls[c].pc = "typing"}
        \cup (IF welcome.pc = "typing" THEN {0} ELSE {})

\* C14: at most one reveal is active at any time.
C14_SingleReveal == Cardinality(ActiveReveals) <= 1

\* C15: sessionId never changes, and every request in flight, to either
\* endpoint, carries it in its X-Session-ID header.
C15_SessionIdFixed ==
    [][/\ sessionId' = sessionId
       /\ \A c \in 1..Len(calls') :
            calls'[c].pc = "awaiting" => calls'[c].req.session = sessionId]_vars

\* after a completed first turn to the diagnosis endpoint, a request to the
\* diet endpoint is in flight with the session id
C15_Witness ==
    /\ Len(calls) = 2
    /\ calls[1].pc = "done"
    /\ calls[2].pc = "awaiting"
    /\ calls[2].req.url = dietUrl
    /\ calls[2].req.session = sessionId

\* C16: in Diagnosis mode, with an input that is empty after trimming and no
\* attachment, no step adds a submission or a user message; in Diet mode, with
\* such an input and no attachment, pressing Enter adds a submission.
C16_EmptySubmission ==
    /\ [][(Trim(input) = <<>> /\ file = NoFile /\ chatMode = "Diagnosis") =>
            /\ Len(calls') = Len(calls)
            /\ \A i \in (Len(messages) + 1)..Len(messages') : ~messages'[i].isUser]_vars
    /\ []((mounted /\ chatMode = "Diet" /\ Trim(input) = <<>> /\ file = NoFile
              /\ Len(calls) < MaxCalls) =>
            ENABLED (PressEnter /\ Len(calls') = Len(calls) + 1))

\* a Diet-mode request without message and without file is in flight
C16_Witness ==
    \E c \in CallIds :
        /\ calls[c].pc = "awaiting"
        /\ calls[c].req.url = dietUrl
        /\ calls[c].req.message = Absent
        /\ calls[c].req.file = NoFile
        /\ messages[Len(messages)].isUser
        /\ messages[Len(messages)].text = <<>>

\* C17: the pending attachment changes only to empty or to a candidate of the
\* accepted type; a candidate of another type leaves it as it was.
C17_OnlyAcceptedType ==
    [][file' # file => file' \in {NoFile, "pdf"}]_vars

\* C18: after teardown no timer of the animator fires: no reveal starts or
\* advances and the log is not written.
C18_NoTickAfterTeardown ==
    [][~mounted =>
          /\ welcome' = welcome
          /\ messages' = messages
          /\ \A c \in CallIds : calls[c].pc = "typing" => calls'[c] = calls[c]]_vars

\* C19: a response whose question is omitted is classified as the same
\* response with question null is, by the branches after the question branch.
C19_OmittedQuestionFallsThrough ==
    [][\A c \in CallIds :
          Responded(c) /\ calls'[c].data.question = Absent =>
             LET asNull == [calls'[c].data EXCEPT !.question = Null]
             IN /\ calls'[c].fullText = BotText(asNull)
                /\ chatMode' = ModeAfter(asNull, chatMode)
                /\ conditionRef' = ConditionAfter(asNull, conditionRef)]_vars

\* C20: a response with question null, a diagnosis, a populated diet_plan and
\* no home_remedy is rendered as the fixed advisory, and mode and
\* pendingCondition are unchanged.
C20_DiagnosisAndDietWithoutRemedy ==
    [][\A c \in CallIds :
          LET d == calls'[c].data
          IN (/\ Responded(c)
              /\ d.question = Null
              /\ d.diagnosis.kind = "object"
              /\ Populated(d.diet_plan)
              /\ ~Populated(d.home_remedy)) =>
                /\ calls'[c].fullText = InconclusiveText
                /\ chatMode' = chatMode
                /\ conditionRef' = conditionRef]_vars

\* in Diet mode after the diagnosis "Flu", such a response is being revealed
\* as the advisory
C20_Witness ==
    \E c \in CallIds :
        /\ calls[c].pc = "typing"
        /\ calls[c].data = Payload(Null, Flu, Absent, <<"plan">>)
        /\ calls[c].fullText = InconclusiveText
        /\ chatMode = "Diet"
        /\ conditionRef = "Flu"

\* C21: mode and pendingCondition change only in the step that parses a
\* diagnosis-branch or a diet-branch response; a submission, a Question or
\* Inconclusive response, a transport error and a reveal tick leave both as
\* they were.
C21_ModeChangesOnlyByBranch ==
    [][/\ (chatMode' # chatMode \/ conditionRef' # conditionRef) =>
            \E c \in CallIds :
                Responded(c)
                  /\ (DiagnosisBranch(calls'[c].data) \/ DietBranch(calls'[c].data))
       /\ \A c \in CallIds :
            Failed(c) => (chatMode' = chatMode /\ conditionRef' = conditionRef)]_vars

\* a submission made in Diet mode after the diagnosis "Flu" has failed, and
\* mode and pendingCondition are those of before the error
C21_Witness ==
    /\ Len(calls) = 2
    /\ calls[1].pc = "done"
    /\ calls[2].pc = "failed"
    /\ error # NoError
    /\ chatMode = "Diet"
    /\ conditionRef = "Flu"

\* C23: the text of a message whose reveal has signalled completion does not
\* change in any later step.
C23_CompletedMessageImmutable ==
    [][/\ \A c \in CallIds :
            calls[c].pc = "done" =>
                messages'[calls[c].target].text = messages[calls[c].target].text
       /\ welcome.pc = "done" =>
            messages'[welcome.target].text = messages[welcome.target].text]_vars

\* C24: isTyping is true in every state in which a reveal has started and has
\* not signalled completion.
C24_IsTypingWhileRevealing == ActiveReveals # {} => isTyping

C26_EndpointAndMessage ==
    [][Len(calls') > Len(calls) =>
          LET r == calls'[Len(calls')].req
          IN /\ r.url = (IF chatMode = "Diet" THEN dietUrl ELSE diagUrl)
             /\ r.message = (IF Trim(input) = <<>> THEN Absent ELSE Trim(input))]_vars

\* the input " a" was submitted in Diet mode: the log shows it as typed, the
\* request to the diet endpoint carries it trimmed
C26_Witness ==
    /\ Len(calls) = 2
    /\ calls[2].pc = "awaiting"
    /\ calls[2].req.url = dietUrl
    /\ calls[2].req.message = <<"a">>
    /\ messages[Len(messages)].text = <<" ", "a">>

\* this step is a click on "No, thank you"
Declined == showDietOption /\ ~showDietOption' /\ calls' = calls

\* C28: declining the diet option changes nothing but the prompt; Diet mode
\* ends only by a diet-branch response, and until then every submission goes
\* to the diet endpoint with pendingCondition, and an empty one is accepted.
C28_DeclineKeepsDietMode ==
    /\ [][/\ Declined =>
               UNCHANGED <<messages, input, file, isRecording, isLoading, error,
                           isTyping, sessionId, isFileDisabled, chatMode,
                           conditionRef, welcome, mounted,
                   recognition>>
          /\ (chatMode = "Diet" /\ chatMode' # "Diet") =>
               \E c \in CallIds : Responded(c) /\ DietBranch(calls'[c].data)
          /\ (chatMode = "Diet" /\ Len(calls') > Len(calls)) =>
               /\ calls'[Len(calls')].req.url = dietUrl
               /\ calls'[Len(calls')].req.condition = conditionRef]_vars
    /\ []((mounted /\ chatMode = "Diet" /\ ~showDietOption /\ Len(calls) < MaxCalls) =>
            ENABLED (PressEnter /\ Len(calls') = Len(calls) + 1))

\* the diagnosis "Flu" was revealed and its prompt declined: no second
\* submission was made, the prompt is hidden, mode is Diet and the condition
\* is kept
C28_Witness ==
    /\ Len(calls) = 1
    /\ calls[1].pc = "done"
    /\ messages[3].text = <<"Flu", "rest">>
    /\ ~showDietOption
    /\ chatMode = "Diet"
    /\ conditionRef = "Flu"
    /\ Trim(input) = <<>>
    /\ file = NoFile

\* C29: pendingCondition is "Unknown" or a non-empty condition, and every
\* request in flight, to either endpoint, carries it as its condition field.
C29_ConditionNeverEmpty ==
    /\ conditionRef \notin {"", NoCondition}
    /\ conditionRef \in {"Unknown"} \cup {d.condition : d \in Diagnoses}
    /\ \A c \in CallIds :
          calls[c].pc = "awaiting" =>
              calls[c].req.condition \notin {"", NoCondition}

\* a diagnosis with an empty condition was parsed, and the request made in
\* Diet mode after it carries "Unknown"
C29_Witness ==
    /\ Len(calls) = 2
    /\ calls[1].pc = "done"
    /\ messages[3].text = <<"", "rest">>
    /\ calls[2].pc = "awaiting"
    /\ calls[2].req.url = dietUrl
    /\ calls[2].req.condition = "Unknown"

\* C22: with timers that fire and requests that settle, every accepted
\* submission returns, by completing its reveal or by failing; and whenever
\* no submission is under way nothing is loading, so that the next submission
\* is not refused for being busy.
C22_SubmissionsFinish ==
    /\ \A c \in 1..MaxCalls :
          (c \in CallIds /\ Unfinished(c))
              ~> (c \in CallIds /\ calls[c].pc \in {"done", "failed"})
    /\ []((\A c \in CallIds : ~Unfinished(c)) => ~isLoading)

\* two submissions were accepted, one has failed and one has completed its
\* reveal, and nothing is loading
C22_Witness ==
    /\ Len(calls) = 2
    /\ calls[1].pc = "failed"
    /\ calls[2].pc = "done"
    /\ ~isLoading
    /\ ActiveReveals = {}

\* this step is the delivery of a transcript by the capture adapter
Delivered == recognition = "started" /\ recognition' = "resulted"

\* C27: the delivery of a transcript leaves in the input buffer its previous
\* content, then a single space iff that content was non-empty, then the
\* transcript, and leaves the recording state idle; no capture event changes
\* mode or pendingCondition.
C27_TranscriptAppended ==
    [][/\ Delivered =>
            /\ \E transcript \in Transcripts :
                  input' = input \o (IF Len(input) > 0 THEN <<" ">> ELSE <<>>)
                                 \o transcript
            /\ SubSeq(input', 1, Len(input)) = input
            /\ ~isRecording'
       /\ (recognition' # recognition \/ isRecording' # isRecording) =>
            (chatMode' = chatMode /\ conditionRef' = conditionRef)]_vars

\* the user typed " a" and then dictated "t"
C27_Witness ==
    /\ input = <<" ", "a", " ", "t">>
    /\ recognition = "resulted"
    /\ ~isRecording

====
